---- MODULE Spec2Model ----
(***************************************************************************)
(* Model of the peptide_opt search engines: TabuSearch (tabu.rs), the      *)
(* baseline GeneticAlgorithm (genetic.rs), NeighbourGA (ga_neighbour.rs)   *)
(* and the PeptideProblem they share (peptide.rs, problem.rs).             *)
(*                                                                         *)
(* Conventions.                                                            *)
(*  - An individual is a sequence of symbols 0..19; Rust positions are     *)
(*    0-based and are kept 0-based in moves, cut points and indices; the   *)
(*    operator At(s, i) reads Rust's s[i].                                 *)
(*  - Scores are f32 in the source (combined_fitness), widened to f64 by   *)
(*    the callers.  A score is held here as the integer that orders like  *)
(*    the f32: its to_bits() pattern, negated for a negative score, so    *)
(*    that <, <= and = on scores are those of the f32 values.  The sums   *)
(*    that produce a score are rounded as f32 addition rounds them.       *)
(*  - A draw from the random generator is a nondeterministic choice.  A    *)
(*    gate "rng.gen() < p" can come out either way when 0 < p < 1, never   *)
(*    true when p = 0 and always true when p = 1.                          *)
(*  - data.rs (AA_LETTERS, BLOSUM62) and data/nepre_f6_example.txt are not *)
(*    part of the sources at hand: BLOSUM62 is the standard matrix in      *)
(*    AA_LETTERS order (ACDEFGHIKLMNPQRSTVWY, fixed by HYDROPATHY and the  *)
(*    comment "C = index 1, P = index 12"), NEPRE_F6 is a stand-in table.  *)
(***************************************************************************)
EXTENDS Integers, Sequences, FiniteSets, TLC

(***************************************************************************)
(* Bounds of the model.                                                    *)
(***************************************************************************)
\* number of distinct symbols the random generator hands out (of the 20)
MaxSym == 2
\* TabuSearch: largest iteration budget, neighbourhood size and tabu length
MaxIter == 3
MaxNeigh == 2
MaxTabuLen == 2
\* TabuSearch: most candidates sampled in one run (iterations * neigh_size)
MaxDraws == 4
\* GeneticAlgorithm / NeighbourGA: largest population; GeneticAlgorithm:
\* largest generation budget
MaxPop == 2
MaxGens == 2
\* NeighbourGA: largest generation budget
MaxNeighGens == 1
\* GeneticAlgorithm: largest tournament size
MaxTour == 2
\* longest parent handed to the crossover operators when applied on their own
MaxLen == 3

(***************************************************************************)
(* Program constants.                                                      *)
(***************************************************************************)
\* alphabet size: the literal 20 of rng.gen_range(0..20) and of 0u8..20
AlphabetSize == 20
\* tabu.rs:38  f + 1.0 < P::fitness(&curr)
AspirationMargin == 1
\* tabu.rs:68  it % 10_000 == 0
ReheatPeriod == 10000
\* ga_neighbour.rs:80-81  tournament_pick(3)
NeighTournament == 3
\* peptide.rs:56  (-1.5..=3.0), in tenths
HydroLow == -15
HydroHigh == 30
\* peptide.rs:73  run >= 4
MaxRun == 4
\* f32: 1.0 in units of 2^-25, and the least magnitude (in those units) that
\* no longer fits the 24-bit significand with a unit in the last place of one
F32Unit == 33554432
F32Exact == 16777216
\* f32 scores: 1.0 in units of 2^-27, the leading bit 2^23 of a significand,
\* and the exponent bias
ScoreUnit == 134217728
F32Half == 8388608
F32Bias == 127
\* peptide.rs:63  forbidden pairs (1,1) "CC" and (12,12) "PP"
SymC == 1
SymP == 12

AA == 0 .. (AlphabetSize - 1)

\* The symbols the random generator is taken to return, in the order they are
\* added as MaxSym grows: C (member of a forbidden pair), R (lowest
\* hydropathy), I (highest hydropathy), then the rest.
SymPool == << 1, 14, 7, 0, 2, 3, 4, 5, 6, 8, 9, 10, 11, 12, 13, 15, 16, 17, 18, 19 >>

RngSyms == { SymPool[i] : i \in 1 .. MaxSym }

(***************************************************************************)
(* Scoring tables.                                                         *)
(***************************************************************************)
\* data.rs BLOSUM62, rows and columns in AA_LETTERS order
BLOSUM62 ==
  << << 4,  0, -2, -1, -2,  0, -2, -1, -1, -1, -1, -2, -1, -1, -1,  1,  0,  0, -3, -2>>,
     << 0,  9, -3, -4, -2, -3, -3, -1, -3, -1, -1, -3, -3, -3, -3, -1, -1, -1, -2, -2>>,
     <<-2, -3,  6,  2, -3, -1, -1, -3, -1, -4, -3,  1, -1,  0, -2,  0, -1, -3, -4, -3>>,
     <<-1, -4,  2,  5, -3, -2,  0, -3,  1, -3, -2,  0, -1,  2,  0,  0, -1, -2, -3, -2>>,
     <<-2, -2, -3, -3,  6, -3, -1,  0, -3,  0,  0, -3, -4, -3, -3, -2, -2, -1,  1,  3>>,
     << 0, -3, -1, -2, -3,  6, -2, -4, -2, -4, -3,  0, -2, -2, -2,  0, -2, -3, -2, -3>>,
     <<-2, -3, -1,  0, -1, -2,  8, -3, -1, -3, -2,  1, -2,  0,  0, -1, -2, -3, -2,  2>>,
     <<-1, -1, -3, -3,  0, -4, -3,  4, -3,  2,  1, -3, -3, -3, -3, -2, -1,  3, -3, -1>>,
     <<-1, -3, -1,  1, -3, -2, -1, -3,  5, -2, -1,  0, -1,  1,  2,  0, -1, -2, -3, -2>>,
     <<-1, -1, -4, -3,  0, -4, -3,  2, -2,  4,  2, -3, -3, -2, -2, -2, -1,  1, -2, -1>>,
     <<-1, -1, -3, -2,  0, -3, -2,  1, -1,  2,  5, -2, -2,  0, -1, -1, -1,  1, -1, -1>>,
     <<-2, -3,  1,  0, -3,  0,  1, -3,  0, -3, -2,  6, -2,  0,  0,  1,  0, -3, -4, -2>>,
     <<-1, -3, -1, -1, -4, -2, -2, -3, -1, -3, -2, -2,  7, -1, -2, -1, -1, -2, -4, -3>>,
     <<-1, -3,  0,  2, -3, -2,  0, -3,  1, -2,  0,  0, -1,  5,  1,  0, -1, -2, -2, -1>>,
     <<-1, -3, -2,  0, -3, -2,  0, -3,  2, -2, -1,  0, -2,  1,  5, -1, -1, -3, -3, -2>>,
     << 1, -1,  0,  0, -2,  0, -1, -2,  0, -2, -1,  1, -1,  0, -1,  4,  1, -2, -3, -2>>,
     << 0, -1, -1, -1, -2, -2, -2, -1, -1, -1, -1,  0, -1, -1, -1,  1,  5,  0, -2, -2>>,
     << 0, -1, -3, -2, -1, -3, -3,  3, -2,  1,  1, -3, -2, -2, -3, -2,  0,  4, -3, -1>>,
     <<-3, -2, -4, -3,  1, -2, -2, -3, -3, -2, -1, -4, -4, -2, -3, -3, -2, -3, 11,  2>>,
     <<-2, -2, -3, -2,  3, -3,  2, -1, -2, -1, -1, -2, -3, -1, -2, -2, -2, -1,  2,  7>> >>

\* nepre.rs NEPRE_F6, the decimal entries of the data file in tenths; the
\* data file is not available, the entries are a fixed asymmetric stand-in
NEPRE_F6 ==
  [ a \in AA |-> [ b \in AA |-> ((7 * a + 13 * b) % 9) - 4 ] ]

\* nepre.rs:8  val.parse::<f32>(): the f32 nearest to 0.1, 0.2, 0.3, 0.4, in
\* units of 2^-27
TenthsAsF32 == << 13421773, 26843546, 40265320, 53687092 >>

\* peptide.rs MOTIFS converted by aa_index (lazy_static MOTIF_INDICES)
MOTIF_INDICES ==
  << <<5, 5, 0, 5, 5, 17, 5, 8, 15>>,
     <<14, 5, 2>>,
     <<8, 2, 3, 9>>,
     <<12, 8, 8, 12>>,
     <<19, 12, 0, 4>>,
     <<2, 12, 2, 5, 5, 2, 5, 10, 2, 2, 15, 2>>,
     <<1, 7, 5, 1, 7, 11, 5, 15, 10, 14, 8, 15, 2, 18, 8, 11, 6, 8, 12, 18, 6>>,
     <<9, 12, 3, 8, 0, 19, 11, 9, 0, 9, 5, 14, 1, 3, 9, 10, 19, 15, 6, 8, 11, 9>>,
     <<6, 16, 6>>,
     <<19, 5, 14, 8, 8, 14, 14, 13, 14, 14, 14>>,
     <<14, 13, 7, 8, 7, 18, 4, 13, 11, 14, 14, 10, 8, 18, 8, 8>>,
     <<0, 5, 19, 9, 9, 5, 8, 9, 5, 0, 0, 9, 8, 5>>,
     <<8, 18, 14, 18, 8, 14, 18, 8, 8>> >>

\* peptide.rs HYDROPATHY, the literals in tenths
HYDROPATHY ==
  << 18, 25, -35, -35, 28, -4, -32, 45, -39, 38, 19, -35, -16, -35, -45, -8, -7, 42, -9, -13 >>

\* peptide.rs HYDROPATHY as stored: the f32 nearest to each literal, counted
\* in units of 2^-25 (every entry is a whole number of them)
HYDROPATHY_F32 ==
  << 60397976, 83886080, -117440512, -117440512, 93952408, -13421773, -107374184,
     150994944, -130862288, 127506840, 63753420, -117440512, -53687092, -117440512,
     -150994944, -26843546, -23488102, 140928608, -30198988, -43620760 >>

NumMotifs == Len(MOTIF_INDICES)

(***************************************************************************)
(* Sequence helpers.                                                       *)
(***************************************************************************)
\* Rust s[i] with a 0-based index
At(s, i) == s[i + 1]

\* Rust s[i] = v
SetAt(s, i, v) == [ s EXCEPT ![i + 1] = v ]

\* Rust s.swap(p1, p2)
SwapAt(s, p1, p2) == [ s EXCEPT ![p1 + 1] = s[p2 + 1], ![p2 + 1] = s[p1 + 1] ]

\* Rust &s[from..to] (to exclusive)
Slice(s, from, to) == [ k \in 1 .. (to - from) |-> s[from + k] ]

Min2(a, b) == IF a <= b THEN a ELSE b

\* all sequences of length n over S
RECURSIVE SeqsOfLen(_, _)
SeqsOfLen(S, n) ==
  IF n = 0 THEN { << >> }
  ELSE { Append(s, x) : s \in SeqsOfLen(S, n - 1), x \in S }

RECURSIVE SumSeq(_)
SumSeq(s) == IF s = << >> THEN 0 ELSE s[1] + SumSeq(Tail(s))

(***************************************************************************)
(* peptide.rs                                                              *)
(***************************************************************************)
\* f32 arithmetic on values counted in whole units (2^-25 for hydropathy,
\* 2^-27 for NEPRE energies): the unit in the last place of a value of
\* magnitude m, a significand holding F32Exact
RECURSIVE F32Ulp(_, _)
F32Ulp(m, u) == IF m < F32Exact * u THEN u ELSE F32Ulp(m, 2 * u)

\* the f32 nearest to r, ties to the even significand; mu is the magnitude
\* of r with its unit in the last place
F32Round(r) ==
  CHOOSE v \in
    { (IF r < 0 THEN -1 ELSE 1) * mu[2]
        * ( mu[1] \div mu[2]
            + (IF \/ 2 * (mu[1] % mu[2]) > mu[2]
                  \/ 2 * (mu[1] % mu[2]) = mu[2] /\ (mu[1] \div mu[2]) % 2 = 1
               THEN 1 ELSE 0) ) :
      mu \in { << m, F32Ulp(m, 1) >> : m \in { IF r < 0 THEN 0 - r ELSE r } } } : TRUE

RECURSIVE Pow2(_)
Pow2(n) == IF n = 0 THEN 1 ELSE 2 * Pow2(n - 1)

\* the position of the leading bit of n >= 1
RECURSIVE FloorLog2(_)
FloorLog2(n) == IF n < 2 THEN 0 ELSE 1 + FloorLog2(n \div 2)

\* the to_bits() pattern of the f32 nearest to the magnitude
\* w + r / ScoreUnit (w >= 0, 0 <= r < ScoreUnit), ties to the even
\* significand: biased exponent times 2^23 plus the significand less its
\* leading bit.  kp is << k, p >>: the magnitude lies in [2^k, 2^(k+1)) and
\* p is the unit in the last place counted in units of 2^-27 (k >= -4), or
\* the number of last places in one unit of 2^-27 (k < -4, where the
\* magnitude has fewer than 24 bits and is exact)
F32MagBits(w, r) ==
  IF w = 0 /\ r = 0 THEN 0
  ELSE CHOOSE bits \in
    { IF kp[1] < -4
      THEN (F32Bias + kp[1]) * F32Half - F32Half + r * kp[2]
      ELSE (F32Bias + kp[1]) * F32Half - F32Half
           + w * (ScoreUnit \div kp[2]) + r \div kp[2]
           + (IF \/ 2 * (r % kp[2]) > kp[2]
                 \/ /\ 2 * (r % kp[2]) = kp[2]
                    /\ (w * (ScoreUnit \div kp[2]) + r \div kp[2]) % 2 = 1
              THEN 1 ELSE 0) :
      kp \in { << k, Pow2(IF k < -4 THEN 0 - (k + 4) ELSE k + 4) >> :
               k \in { FloorLog2(IF w >= 1 THEN w ELSE r)
                       - (IF w >= 1 THEN 0 ELSE 27) } } } : TRUE

\* the score b + n as f32 addition gives it, b an integer (`as f32` of an
\* i32 of this size is exact) and n an f32 counted in units of 2^-27; wr is
\* the magnitude of the exact sum, whole part and units
F32Add(b, n) ==
  CHOOSE key \in
    { (IF t[1] < 0 THEN -1 ELSE 1) * F32MagBits(wr[1], wr[2]) :
      t \in { << b + (n \div ScoreUnit), n % ScoreUnit >> },
      wr \in { IF b + (n \div ScoreUnit) >= 0
               THEN << b + (n \div ScoreUnit), n % ScoreUnit >>
               ELSE IF n % ScoreUnit = 0
               THEN << 0 - (b + (n \div ScoreUnit)), 0 >>
               ELSE << 0 - (b + (n \div ScoreUnit)) - 1, ScoreUnit - (n % ScoreUnit) >> } } : TRUE

\* the magnitude of a score: << w, r >> stands for w + r / ScoreUnit with
\* 0 <= r < ScoreUnit (every score is a whole number of units 2^-27); mkp
\* is << significand, k, p >>, k and p as in F32MagBits
F32Magnitude(bits) ==
  IF bits = 0 THEN << 0, 0 >>
  ELSE CHOOSE wr \in
    { IF mkp[2] < -4 THEN << 0, mkp[1] \div mkp[3] >>
      ELSE << mkp[1] \div (ScoreUnit \div mkp[3]),
              (mkp[1] % (ScoreUnit \div mkp[3])) * mkp[3] >> :
      mkp \in { << F32Half + (bits % F32Half), k,
                   Pow2(IF k < -4 THEN 0 - (k + 4) ELSE k + 4) >> :
                k \in { bits \div F32Half - F32Bias } } } : TRUE

\* the value of a score: << w, r >> stands for w + r / ScoreUnit with
\* 0 <= r < ScoreUnit
F32Value(key) ==
  CHOOSE wr \in
    { IF key >= 0 THEN m
      ELSE IF m[2] = 0 THEN << 0 - m[1], 0 >>
      ELSE << 0 - m[1] - 1, ScoreUnit - m[2] >> :
      m \in { F32Magnitude(IF key < 0 THEN 0 - key ELSE key) } } : TRUE

\* f + margin < g on scores widened to f64, margin a whole number: the f64
\* sum is exact
PlusBelow(f, margin, g) ==
  \E v \in { [ x \in { f, g } |-> F32Value(x) ] } :
     \/ v[f][1] + margin < v[g][1]
     \/ v[f][1] + margin = v[g][1] /\ v[f][2] < v[g][2]

\* iter().sum::<f64>() of scores widened to f64 (exact), as << w, r >>
RECURSIVE SumScores(_)
SumScores(s) ==
  IF s = << >> THEN << 0, 0 >>
  ELSE CHOOSE wr \in
    { << a[1] + c[1] + (a[2] + c[2]) \div ScoreUnit, (a[2] + c[2]) % ScoreUnit >> :
      a \in { F32Value(s[1]) }, c \in { SumScores(Tail(s)) } } : TRUE

\* nepre::pair: the entry as val.parse::<f32>() stores it, in units of
\* 2^-27
pair(a, b) ==
  CHOOSE e \in
    { IF t = 0 THEN 0
      ELSE IF t > 0 THEN TenthsAsF32[t] ELSE 0 - TenthsAsF32[0 - t] :
      t \in { NEPRE_F6[a][b] } } : TRUE

\* peptide.rs:96  seq.windows(2).map(..).sum::<f32>(): the left-to-right
\* f32 sum over the first k windows of s
RECURSIVE NepreSum(_, _)
NepreSum(s, k) ==
  IF k <= 0 THEN 0
  ELSE CHOOSE acc \in { F32Round(prev + pair(s[k], s[k + 1])) :
                         prev \in { NepreSum(s, k - 1) } } : TRUE

\* BLOSUM62[a][b] with 0-based indices
Blosum(a, b) == BLOSUM62[a + 1][b + 1]

\* the body shared by energy and energy_best_motif: the negated BLOSUM62
\* score of ind aligned to a motif, the motif repeated cyclically
MotifEnergy(ind, motif_idx) ==
  LET m == MOTIF_INDICES[motif_idx + 1]
  IN  SumSeq([ k \in 1 .. Len(ind) |->
               0 - Blosum(ind[k], m[((k - 1) % Len(m)) + 1]) ])

\* PeptideProblem::energy under CURRENT_MOTIF_IDX = motif_idx
energy(ind, motif_idx) == MotifEnergy(ind, motif_idx)

\* PeptideProblem::energy_best_motif: the minimum over the catalog
energy_best_motif(ind) ==
  CHOOSE e \in
    { CHOOSE m \in E : \A e2 \in E : m <= e2 :
      E \in { { MotifEnergy(ind, j) : j \in 0 .. (NumMotifs - 1) } } } : TRUE

\* combined_fitness under the globals (CURRENT_MOTIF_IDX, USE_BEST_MOTIF),
\* computed
ScoreOf(s, motif_idx, use_best) ==
  CHOOSE score \in
    { F32Add(blosum_e, nepre_e) :
      blosum_e \in { IF use_best THEN energy_best_motif(s) ELSE energy(s, motif_idx) },
      nepre_e \in { NepreSum(s, Len(s) - 1) } } : TRUE

\* current_motif_len
current_motif_len(motif_idx) == Len(MOTIF_INDICES[motif_idx + 1])

\* ScoreOf tabulated for the individuals the random generator draws under
\* the motifs the engines are run with
ScoreMemo ==
  [ m \in { 1, 2 } |->
      [ s \in SeqsOfLen(RngSyms, current_motif_len(m)) |-> ScoreOf(s, m, FALSE) ] ]

\* combined_fitness under the globals (CURRENT_MOTIF_IDX, USE_BEST_MOTIF)
combined_fitness(s, motif_idx, use_best) ==
  IF /\ ~ use_best
     /\ motif_idx \in DOMAIN ScoreMemo
     /\ Len(s) = current_motif_len(motif_idx)
     /\ \A k \in 1 .. Len(s) : s[k] \in RngSyms
  THEN ScoreMemo[motif_idx][s]
  ELSE ScoreOf(s, motif_idx, use_best)

\* the homopolymer scan of is_biologically_valid: TRUE iff the loop returns
\* false, i.e. some run of identical symbols reaches MaxRun
RECURSIVE RunReaches(_, _, _)
RunReaches(s, i, run) ==
  IF i >= Len(s) THEN FALSE
  ELSE IF At(s, i) = At(s, i - 1)
       THEN (run + 1 >= MaxRun) \/ RunReaches(s, i + 1, run + 1)
       ELSE RunReaches(s, i + 1, 1)

\* peptide.rs:54  iter().map(..).sum::<f32>(): the left-to-right f32 sum of
\* the stored hydropathies of s[1..k]
RECURSIVE HydroSum(_, _)
HydroSum(s, k) ==
  IF k = 0 THEN 0
  ELSE CHOOSE acc \in { F32Round(prev + HYDROPATHY_F32[s[k] + 1]) :
                         prev \in { HydroSum(s, k - 1) } } : TRUE

\* peptide.rs:54-56  (-1.5..=3.0).contains(&(sum / len)) for the f32 value
\* sum: the f32 quotient is the f32 nearest to sum/len, so it is >= -1.5
\* iff sum/len >= -1.5 - 2^-24 (half a unit in the last place below -1.5,
\* the tie going to -1.5) and <= 3.0 iff sum/len <= 3.0 + 2^-23
AvgHydroInRange(sum, len) ==
  /\ len * ((HydroLow * F32Unit) \div 10 - 2) <= sum
  /\ sum <= len * ((HydroHigh * F32Unit) \div 10 + 4)

\* is_biologically_valid
is_biologically_valid(s) ==
  /\ s # << >>
  /\ AvgHydroInRange(HydroSum(s, Len(s)), Len(s))
  /\ \A k \in 1 .. (Len(s) - 1) :
        ~ ( (s[k] = SymC /\ s[k + 1] = SymC) \/ (s[k] = SymP /\ s[k + 1] = SymP) )
  /\ ~ RunReaches(s, 1, 1)

\* PeptideProblem::random_individual: every sequence of the motif's length
random_individual(motif_idx) == SeqsOfLen(RngSyms, current_motif_len(motif_idx))

\* PeptideProblem::fitness
fitness(ind, motif_idx, use_best) == combined_fitness(ind, motif_idx, use_best)

\* a value returned by an operation, or the panic that ended it
Ok(v) == [ ok |-> TRUE, val |-> v ]
Panic == [ ok |-> FALSE, val |-> << >> ]

\* Move::Subst / Move::Swap
Subst(pos, old, new) == [ kind |-> "Subst", pos |-> pos, old |-> old, new |-> new ]
Swap(p1, p2) == [ kind |-> "Swap", p1 |-> p1, p2 |-> p2 ]

\* one round of the loop of PeptideProblem::neighbourhood: the (neigh, move)
\* pairs it can push.  The Subst branch (r < 0.7) redraws until new # old;
\* the Swap branch pushes nothing when the length is below 2.
NeighbourSteps(ind) ==
  UNION { { [ cand |-> SetAt(ind, pos, new), mv |-> Subst(pos, At(ind, pos), new) ] :
              new \in RngSyms \ { At(ind, pos) } } :
          pos \in 0 .. (Len(ind) - 1) }
  \cup
  { [ cand |-> SwapAt(ind, pq[1], pq[2]), mv |-> Swap(pq[1], pq[2]) ] :
      pq \in { x \in (0 .. (Len(ind) - 1)) \X (0 .. (Len(ind) - 1)) : x[1] # x[2] } }

\* PeptideProblem::neighbourhood: every outcome of `size` rounds, the vector
\* returned or a panic.  A round pushes one pair, or nothing when it takes
\* the Swap branch on a sequence shorter than 2; on the empty sequence the
\* Subst branch panics in rng.gen_range(0..0) (peptide.rs:227)
RECURSIVE neighbourhood(_, _)
neighbourhood(ind, size) ==
  IF size = 0 THEN { Ok(<< >>) }
  ELSE UNION { IF ~ o.ok THEN { Panic }
               ELSE (IF Len(ind) = 0 THEN { Panic } ELSE { })
                    \cup { Ok(Append(o.val, st)) : st \in NeighbourSteps(ind) }
                    \cup (IF Len(ind) < 2 THEN { o } ELSE { }) :
               o \in neighbourhood(ind, size - 1) }

\* a swap that writes one of its two positions only
apply_move_HalfSwap(ind, mv) ==
  IF mv.kind = "Subst" THEN SetAt(ind, mv.pos, mv.new)
  ELSE SetAt(ind, mv.p1, At(ind, mv.p2))

\* PeptideProblem::apply_move for the supported moves
apply_move(ind, mv) ==
  IF mv.kind = "Subst" THEN SetAt(ind, mv.pos, mv.new)
  ELSE SwapAt(ind, mv.p1, mv.p2)

\* Move::Insert / Move::Delete
Insert(pos, aa) == [ kind |-> "Insert", pos |-> pos, aa |-> aa ]
Delete(pos, aa) == [ kind |-> "Delete", pos |-> pos, aa |-> aa ]

\* the index checks of `ind[pos]` and of `ind.swap(p1, p2)`: both run before
\* anything is written
MoveInBounds(ind, mv) ==
  IF mv.kind = "Subst" THEN mv.pos < Len(ind)
  ELSE mv.p1 < Len(ind) /\ mv.p2 < Len(ind)

\* PeptideProblem::apply_move on any Move: whether it returned, and the
\* individual as the call leaves it
apply_move_call(ind, mv) ==
  IF mv.kind \in { "Insert", "Delete" } THEN [ ok |-> FALSE, val |-> ind ]
  ELSE IF ~ MoveInBounds(ind, mv) THEN [ ok |-> FALSE, val |-> ind ]
  ELSE [ ok |-> TRUE, val |-> apply_move(ind, mv) ]

\* PeptideProblem::repair: the outcomes of padding with random symbols or
\* truncating to the motif's length
RECURSIVE repair(_, _)
repair(ind, motif_idx) ==
  LET target_len == current_motif_len(motif_idx)
  IN  IF Len(ind) < target_len
      THEN UNION { repair(Append(ind, x), motif_idx) : x \in RngSyms }
      ELSE IF Len(ind) > target_len THEN { SubSeq(ind, 1, target_len) }
      ELSE { ind }

(***************************************************************************)
(* State.                                                                  *)
(***************************************************************************)
VARIABLES
  engine,          \* which engine this run drives: "tabu", "ga", "nga", ...
  pc,              \* position of the driver: "new", "run", "done"
  motif,           \* peptide.rs CURRENT_MOTIF_IDX
  use_best_motif,  \* peptide.rs USE_BEST_MOTIF
  result,          \* what run returned, NoResult before
  \* ---- TabuSearch ----
  ts_cfg,          \* the TabuSearch struct: iterations, neigh_size, tabu_len
  curr, best, best_f, tabu, it, trace,   \* locals of TabuSearch::run
  ts_neigh,        \* neighbourhood sampled by the last iteration
  ts_pre,          \* tabu, curr and best_f as the last iteration found them
  ts_chosen,       \* 1-based index in ts_neigh of the chosen candidate, 0 = None
  \* ---- GeneticAlgorithm ----
  ga_cfg,          \* the GeneticAlgorithm struct
  population, ga_i, progress,   \* locals of GeneticAlgorithm::run
  \* ---- NeighbourGA ----
  ng_cfg,          \* NeighCfg
  ng_population, ng_fitness,   \* fields of NeighbourGA
  ng_gen,          \* _gen of NeighbourGA::run
  ng_hc,           \* one call of hill_climb_optimize made by the last
                   \* step_generation (any of them): the sequence it was
                   \* given and the one it left; NoCall if none is observed
  \* ---- NeighbourGA built and run twice with the same NeighCfg ----
  run_no,          \* which of the two runs is under way
  first_best,      \* what the first run returned
  \* ---- a crossover operator applied on its own ----
  op_in,           \* the call: operator, its configuration, the two parents
  op_out,          \* what it returned: Ok(<<children>>) or Panic
  \* ---- GeneticAlgorithm and NeighbourGA ----
  gen0_best_f,     \* minimum fitness of the initial population (generation 0)
  \* ---- later additions ----
  built_with,      \* the scoring configuration in force when the engine was built
  op_mv,           \* the Move handed to apply_move when it is applied on its own
  filter           \* the plausibility filter of step_generation taken alone:
                   \* the child under test and the candidate drawn last

sharedVars == << engine, pc, motif, use_best_motif, result >>
gaVars == << ga_cfg, population, ga_i, progress >>
ngVars == << ng_cfg, ng_population, ng_fitness, ng_gen, ng_hc >>
ng2Vars == << run_no, first_best >>
opVars == << op_in, op_out >>
moreVars == << built_with, op_mv, filter >>
tsVars == << ts_cfg, curr, best, best_f, tabu, it, trace, ts_neigh, ts_pre, ts_chosen >>

NoResult == [ best |-> << >>, trace |-> << >> ]
NoCall == [ called |-> FALSE, given |-> << >>, left |-> << >> ]
NoPre == [ tabu |-> << >>, curr |-> << >>, best_f |-> 0 ]

\* motif indices the engines are run on: RGD (length 3) for TabuSearch and
\* GeneticAlgorithm, KDEL (length 4) for NeighbourGA
TabuMotifs == { 1 }
GAMotifs == { 1 }
NeighMotifs == { 2 }

\* current fitness function, under the globals
Fit(ind) == fitness(ind, motif, use_best_motif)

(***************************************************************************)
(* tabu.rs                                                                 *)
(***************************************************************************)
\* VecDeque::contains
Contains(q, x) == \E k \in 1 .. Len(q) : q[k] = x

\* the candidate loop without the margin test of tabu.rs:38-41
TabuSkips_NoMargin(q, bestf, currf, f, mv) ==
  Contains(q, mv) /\ f >= bestf

\* the candidate loop skipping every tabu move, aspiration ignored
TabuSkips_NoAspiration(q, bestf, currf, f, mv) ==
  Contains(q, mv)

\* tabu.rs:31-41  the two `continue`s of the candidate loop
TabuSkips(q, bestf, currf, f, mv) ==
  \/ Contains(q, mv) /\ f >= bestf
  \/ Contains(q, mv) /\ ~ PlusBelow(f, AspirationMargin, currf)

\* tabu.rs:29-48  the scan over the neighbourhood from candidate k on;
\* chosen is the index of the candidate held in chosen_ind (0 = None,
\* chosen_f = INFINITY)
RECURSIVE ChooseCandidate(_, _, _, _, _, _)
ChooseCandidate(neigh, k, q, bestf, currf, chosen) ==
  IF k > Len(neigh) THEN chosen
  ELSE LET f == Fit(neigh[k].cand)
       IN  IF TabuSkips(q, bestf, currf, f, neigh[k].mv)
           THEN ChooseCandidate(neigh, k + 1, q, bestf, currf, chosen)
           ELSE IF chosen = 0 \/ f < Fit(neigh[chosen].cand)
                THEN ChooseCandidate(neigh, k + 1, q, bestf, currf, k)
                ELSE ChooseCandidate(neigh, k + 1, q, bestf, currf, chosen)

\* a full queue giving up its newest entry
PushTabu_EvictsNewest(q, mv, tabu_len) ==
  Append(IF Len(q) = tabu_len /\ q # << >> THEN SubSeq(q, 1, Len(q) - 1) ELSE q, mv)

\* tabu.rs:53-56  pop_front when the queue is at tabu_len, then push_back
PushTabu(q, mv, tabu_len) ==
  Append(IF Len(q) = tabu_len /\ q # << >> THEN Tail(q) ELSE q, mv)

\* tabu.rs:68-70  reheat
Reheat(q, i) == IF i % ReheatPeriod = 0 /\ i # 0 THEN << >> ELSE q

\* the best replaced by whatever is current
Improves_Always(curr_f, bestf) == TRUE

\* tabu.rs:60  `if curr_f < best_f`
Improves(curr_f, bestf) == curr_f < bestf

\* tabu.rs:65  trace.push((it, best_f))
TraceEntry(i, bestf) == << i, bestf >>

\* no Move, and no filter at work
NoMove == [ kind |-> "none" ]
NoFilter == [ child |-> << >>, cand |-> << >> ]

InitShared(e, motifs) ==
  /\ engine = e
  /\ pc = "new"
  /\ motif \in motifs
  /\ use_best_motif = FALSE
  /\ result = NoResult
  /\ built_with = [ motif |-> motif, use_best |-> use_best_motif ]

GAIdle ==
  /\ ga_cfg = [ population_size |-> 0, generations |-> 0, crossover_prob |-> 0,
                crossover |-> "SinglePoint", mutation_prob |-> 0, tournament_size |-> 0 ]
  /\ population = << >> /\ ga_i = 0 /\ progress = << >>

NeighIdle ==
  /\ ng_cfg = [ pop_size |-> 0, crossover_p |-> 0, mutation_p |-> 0,
                smart_xover |-> FALSE, max_gens |-> 0 ]
  /\ ng_population = << >> /\ ng_fitness = << >> /\ ng_gen = 0 /\ ng_hc = NoCall

\* the engine values under which NeighbourGA runs
NeighEngines == { "nga", "nga_pair" }

Neigh2Idle == run_no = 1 /\ first_best = << >>

OpIdle ==
  /\ op_in = [ op |-> "none", kind |-> "SinglePoint", prob |-> 0, a |-> << >>, b |-> << >> ]
  /\ op_out = [ ok |-> TRUE, val |-> << >> ]
  /\ op_mv = NoMove

FilterIdle == filter = NoFilter

TabuIdle ==
  /\ ts_cfg = [ iterations |-> 0, neigh_size |-> 0, tabu_len |-> 0 ]
  /\ curr = << >> /\ best = << >> /\ best_f = 0 /\ tabu = << >>
  /\ it = 0 /\ trace = << >>
  /\ ts_neigh = << >> /\ ts_pre = NoPre /\ ts_chosen = 0

\* the TabuSearch values the model is run on: every combination within the
\* bounds that samples at most MaxDraws candidates in a run
TabuCfgs ==
  { c \in [ iterations : 0 .. MaxIter, neigh_size : 0 .. MaxNeigh,
            tabu_len : 0 .. MaxTabuLen ] :
      c.iterations * c.neigh_size <= MaxDraws }

\* a TabuSearch value as the caller builds it
InitTabu ==
  /\ InitShared("tabu", TabuMotifs)
  /\ GAIdle
  /\ NeighIdle
  /\ Neigh2Idle
  /\ FilterIdle
  /\ OpIdle
  /\ gen0_best_f = 0
  /\ ts_cfg \in TabuCfgs
  /\ curr = << >> /\ best = << >> /\ best_f = 0 /\ tabu = << >>
  /\ it = 0 /\ trace = << >>
  /\ ts_neigh = << >> /\ ts_pre = NoPre /\ ts_chosen = 0

\* tabu.rs:14-22  TabuSearch::run up to the loop
TabuStart ==
  /\ engine = "tabu" /\ pc = "new"
  /\ \E ind \in random_individual(motif) :
       /\ best' = ind
       /\ curr' = ind
       /\ best_f' = Fit(ind)
  /\ tabu' = << >>
  /\ trace' = << >>
  /\ it' = 0
  /\ pc' = "run"
  /\ UNCHANGED << moreVars, engine, motif, use_best_motif, result, ts_cfg, ts_neigh, ts_pre, ts_chosen >>
  /\ UNCHANGED << moreVars, gaVars, ngVars, ng2Vars, opVars, gen0_best_f >>

\* tabu.rs:24-71  one iteration of the loop
TabuIterate ==
  /\ engine = "tabu" /\ pc = "run" /\ it < ts_cfg.iterations
  /\ \E o \in neighbourhood(curr, ts_cfg.neigh_size) :
     IF ~ o.ok
     THEN /\ pc' = "panicked"
          /\ UNCHANGED << curr, best, best_f, trace, tabu, ts_neigh, ts_chosen, ts_pre, it >>
     ELSE
       LET neigh  == o.val
           chosen == ChooseCandidate(neigh, 1, tabu, best_f, Fit(curr), 0)
           curr2  == IF chosen # 0 THEN neigh[chosen].cand ELSE curr
           tabu2  == IF chosen # 0
                     THEN PushTabu(tabu, neigh[chosen].mv, ts_cfg.tabu_len)
                     ELSE tabu
           curr_f == Fit(curr2)
       IN  /\ curr' = curr2
           /\ best' = IF Improves(curr_f, best_f) THEN curr2 ELSE best
           /\ best_f' = IF Improves(curr_f, best_f) THEN curr_f ELSE best_f
           /\ trace' = Append(trace, TraceEntry(it, best_f'))
           /\ tabu' = Reheat(tabu2, it)
           /\ ts_neigh' = neigh
           /\ ts_chosen' = chosen
           /\ ts_pre' = [ tabu |-> tabu, curr |-> curr, best_f |-> best_f ]
           /\ it' = it + 1
           /\ pc' = pc
  /\ UNCHANGED << moreVars, engine, motif, use_best_motif, result, ts_cfg,
                  gaVars, ngVars, ng2Vars, opVars, gen0_best_f >>

\* tabu.rs:72  return (best, trace)
TabuReturn ==
  /\ engine = "tabu" /\ pc = "run" /\ it = ts_cfg.iterations
  /\ result' = [ best |-> best, trace |-> trace ]
  /\ pc' = "done"
  /\ UNCHANGED << moreVars, engine, motif, use_best_motif, tsVars, gaVars, ngVars, ng2Vars, opVars, gen0_best_f >>

NextTabu == TabuStart \/ TabuIterate \/ TabuReturn

vars == << sharedVars, tsVars, gaVars, ngVars, ng2Vars, opVars, gen0_best_f, moreVars >>

SpecTabu == InitTabu /\ [][NextTabu]_vars

(***************************************************************************)
(* genetic.rs                                                              *)
(***************************************************************************)
\* probabilities, in percent
Probs == { 0, 50, 100 }

\* the outcomes of `rng.gen::<f64>() < p`, the draw being in [0, 1)
Gate(p) == IF p <= 0 THEN { FALSE } ELSE IF p >= 100 THEN { TRUE } ELSE BOOLEAN

\* Iterator::min_by over fitness: index (1-based) of the first minimum of a
\* non-empty sequence of individuals
FirstMin(inds) ==
  CHOOSE k \in 1 .. Len(inds) :
     /\ \A j \in 1 .. Len(inds) : Fit(inds[k]) <= Fit(inds[j])
     /\ \A j \in 1 .. (k - 1) : Fit(inds[j]) > Fit(inds[k])

\* minimum and maximum of a non-empty set of scores
MinOf(S) == CHOOSE x \in S : \A y \in S : x <= y
MaxOf(S) == CHOOSE x \in S : \A y \in S : x >= y

\* scores of a population
Fitnesses(pop) == [ k \in 1 .. Len(pop) |-> Fit(pop[k]) ]
MinFit(pop) == MinOf({ Fit(pop[k]) : k \in 1 .. Len(pop) })
MaxFit(pop) == MaxOf({ Fit(pop[k]) : k \in 1 .. Len(pop) })

\* GeneticAlgorithm::tournament_selection: the individuals it can return;
\* Panic when a draw from 0..population.len() or the unwrap of an empty
\* tournament fails
tournament_selection(pop, k) ==
  IF k = 0 \/ pop = << >> THEN { Panic }
  ELSE { Ok(LET t == [ j \in 1 .. k |-> pop[idxs[j]] ] IN t[FirstMin(t)]) :
           idxs \in SeqsOfLen(1 .. Len(pop), k) }

\* a single-point child that drops parent2's symbol at the cut
SinglePointChild_SkipsCut(parent1, parent2, point) ==
  Slice(parent1, 0, point)
    \o Slice(parent2, Min2(point + 1, Len(parent2)), Len(parent2))

\* a single-point child whose suffix is taken from parent1 as well
SinglePointChild_OwnSuffix(parent1, parent2, point) ==
  Slice(parent1, 0, point)
    \o Slice(parent1, Min2(point, Len(parent1)), Len(parent1))

\* genetic.rs:97-100  the child of a single-point crossover cut at `point`
SinglePointChild(parent1, parent2, point) ==
  Slice(parent1, 0, point)
    \o Slice(parent2, Min2(point, Len(parent2)), Len(parent2))

\* a uniform child that reads parent2 from its far end
UniformChild_Mirrored(parent1, parent2, take) ==
  [ k \in 1 .. Min2(Len(parent1), Len(parent2)) |->
      IF take[k] THEN parent1[k] ELSE parent2[Len(parent2) + 1 - k] ]

\* genetic.rs:104-112  the child of a uniform crossover; take[i] says that
\* position i-1 comes from parent1
UniformChild(parent1, parent2, take) ==
  [ k \in 1 .. Min2(Len(parent1), Len(parent2)) |->
      IF take[k] THEN parent1[k] ELSE parent2[k] ]

\* GeneticAlgorithm::crossover once the gate has opened
CrossoverApplied(parent1, parent2, kind) ==
  IF kind = "SinglePoint"
  THEN LET hi == Min2(Len(parent1), Len(parent2))
       IN  IF hi <= 1 THEN { Panic }    \* gen_range(1..hi) on an empty range
           ELSE { Ok(SinglePointChild(parent1, parent2, point)) : point \in 1 .. (hi - 1) }
  ELSE { Ok(UniformChild(parent1, parent2, take)) :
           take \in SeqsOfLen(BOOLEAN, Min2(Len(parent1), Len(parent2))) }

\* GeneticAlgorithm::crossover
crossover(parent1, parent2, kind, crossover_prob) ==
  UNION { IF g THEN CrossoverApplied(parent1, parent2, kind) ELSE { Ok(parent1) } :
          g \in Gate(crossover_prob) }

\* genetic.rs:125-142  the mutation once the gate has opened: a substitution
\* by a different symbol (r < 0.7), else a swap of two distinct positions
\* when the length allows it
MutateApplied(individual) ==
  LET n == Len(individual)
  IN  (IF n = 0 THEN { Panic }
       ELSE UNION { { Ok(SetAt(individual, pos, new)) :
                        new \in RngSyms \ { At(individual, pos) } } :
                    pos \in 0 .. (n - 1) })
      \cup
      (IF n >= 2
       THEN { Ok(SwapAt(individual, pq[1], pq[2])) :
                pq \in { x \in (0 .. (n - 1)) \X (0 .. (n - 1)) : x[1] # x[2] } }
       ELSE { Ok(individual) })

\* GeneticAlgorithm::mutate
mutate(individual, mutation_prob) ==
  UNION { IF g THEN MutateApplied(individual) ELSE { Ok(individual) } :
          g \in Gate(mutation_prob) }

\* genetic.rs:62-66  one offspring of evolve
Offspring(pop, cfg) ==
  LET sel == tournament_selection(pop, cfg.tournament_size)
  IN  UNION { IF ~ p1.ok \/ ~ p2.ok THEN { Panic }
              ELSE UNION { IF c.ok THEN mutate(c.val, cfg.mutation_prob) ELSE { Panic } :
                           c \in crossover(p1.val, p2.val, cfg.crossover, cfg.crossover_prob) } :
              p1 \in sel, p2 \in sel }

\* GeneticAlgorithm::evolve: the populations it can return, or Panic
evolve(pop, cfg) ==
  IF cfg.population_size = 0 THEN { Ok(<< >>) }
  ELSE LET O == Offspring(pop, cfg)
       IN  { Ok(np) : np \in SeqsOfLen({ o.val : o \in { x \in O : x.ok } },
                                       cfg.population_size) }
           \cup (IF \E o \in O : ~ o.ok THEN { Panic } ELSE { })

\* GeneticAlgorithm::initialize_population
initialize_population(population_size) ==
  SeqsOfLen(random_individual(motif), population_size)

\* GeneticAlgorithm::get_best_solution
get_best_solution(pop) == pop[FirstMin(pop)]

\* the progress entry numbered from 1
ProgressEntry_OneBased(i, pop) ==
  << i + 1, MinFit(pop), MaxFit(pop), << SumScores(Fitnesses(pop)), Len(pop) >> >>

\* genetic.rs:30-45  the entry pushed on progress: (i, min, max, avg), the
\* average kept as the pair (sum, count)
ProgressEntry(i, pop) ==
  << i, MinFit(pop), MaxFit(pop), << SumScores(Fitnesses(pop)), Len(pop) >> >>

\* the GeneticAlgorithm values the model is run on
GACfgs ==
  [ population_size : 1 .. MaxPop, generations : 0 .. MaxGens,
    crossover_prob : Probs, crossover : { "SinglePoint", "Uniform" },
    mutation_prob : Probs, tournament_size : 1 .. MaxTour ]

\* a GeneticAlgorithm value as the caller builds it
InitGA ==
  /\ InitShared("ga", GAMotifs)
  /\ TabuIdle
  /\ NeighIdle
  /\ Neigh2Idle
  /\ FilterIdle
  /\ OpIdle
  /\ ga_cfg \in GACfgs
  /\ population = << >> /\ ga_i = 0 /\ progress = << >>
  /\ gen0_best_f = 0

\* genetic.rs:23-25  GeneticAlgorithm::run up to the loop
GAStart ==
  /\ engine = "ga" /\ pc = "new"
  /\ population' \in initialize_population(ga_cfg.population_size)
  /\ progress' = << >>
  /\ ga_i' = 0
  /\ gen0_best_f' = IF population' = << >> THEN 0 ELSE MinFit(population')
  /\ pc' = "run"
  /\ UNCHANGED << moreVars, engine, motif, use_best_motif, result, ga_cfg, tsVars, ngVars, ng2Vars, opVars >>

\* genetic.rs:27-46  one generation of the loop
GAGeneration ==
  /\ engine = "ga" /\ pc = "run" /\ ga_i < ga_cfg.generations
  /\ \E o \in evolve(population, ga_cfg) :
       IF o.ok /\ o.val # << >>
       THEN /\ population' = o.val
            /\ progress' = Append(progress, ProgressEntry(ga_i, o.val))
            /\ ga_i' = ga_i + 1
            /\ pc' = pc
       ELSE \* a panic in evolve, or min/max unwrapped on no fitness at all
            /\ pc' = "panicked"
            /\ UNCHANGED << population, progress, ga_i >>
  /\ UNCHANGED << moreVars, engine, motif, use_best_motif, result, ga_cfg, tsVars, ngVars, ng2Vars, opVars, gen0_best_f >>

\* genetic.rs:48-49  return (best, progress)
GAReturn ==
  /\ engine = "ga" /\ pc = "run" /\ ga_i = ga_cfg.generations
  /\ IF population = << >>
     THEN pc' = "panicked" /\ result' = result
     ELSE /\ result' = [ best |-> get_best_solution(population), trace |-> progress ]
          /\ pc' = "done"
  /\ UNCHANGED << moreVars, engine, motif, use_best_motif, gaVars, tsVars, ngVars, ng2Vars, opVars, gen0_best_f >>

NextGA == GAStart \/ GAGeneration \/ GAReturn

SpecGA == InitGA /\ [][NextGA]_vars

(***************************************************************************)
(* ga_neighbour.rs                                                         *)
(***************************************************************************)
\* ga_neighbour.rs:106 and :112  lc_prob, in percent; ga_neighbour.rs:105
\* and :111  the 0.20 gate before it
HillGate == 20
LcProb(child) == IF Len(child) <= 5 THEN 60 ELSE 20

\* NeighbourGA::evaluate
evaluate(pop) == [ k \in 1 .. Len(pop) |-> combined_fitness(pop[k], motif, use_best_motif) ]

\* NeighbourGA::best: 1-based index of the first minimum of the fitness
\* vector (non-empty)
best_idx_of(fit) ==
  CHOOSE k \in 1 .. Len(fit) :
     /\ \A j \in 1 .. Len(fit) : fit[k] <= fit[j]
     /\ \A j \in 1 .. (k - 1) : fit[j] > fit[k]

\* NeighbourGA::tournament_pick: the index it returns for the draws idxs
\* (1-based); a later draw replaces the held one only when strictly fitter
RECURSIVE PickScan(_, _, _, _)
PickScan(fit, idxs, j, held) ==
  IF j > Len(idxs) THEN held
  ELSE PickScan(fit, idxs, j + 1, IF fit[idxs[j]] < fit[held] THEN idxs[j] ELSE held)

tournament_pick(fit, n, k) ==
  { PickScan(fit, idxs, 2, idxs[1]) : idxs \in SeqsOfLen(1 .. n, k) }

\* uniform_crossover: flip[i] says that position i-1 is exchanged
uniform_crossover(a, b) ==
  { << [ k \in 1 .. Len(a) |-> IF flip[k] THEN b[k] ELSE a[k] ],
       [ k \in 1 .. Len(b) |-> IF k <= Len(a) /\ flip[k] THEN a[k] ELSE b[k] ] >> :
      flip \in SeqsOfLen(BOOLEAN, Len(a)) }

\* ga_neighbour.rs:233-251  the loop of smart_uniform from position i on
RECURSIVE SmartScan(_, _, _, _)
SmartScan(child, parent_a, parent_b, i) ==
  IF i >= Len(parent_a) THEN child
  ELSE IF At(parent_a, i) = At(parent_b, i)
       THEN SmartScan(child, parent_a, parent_b, i + 1)
       ELSE LET with_b == SetAt(child, i, At(parent_b, i))
                fit_b == combined_fitness(with_b, motif, use_best_motif)
                fit_a == combined_fitness(child, motif, use_best_motif)
            IN  SmartScan(IF fit_b < fit_a THEN with_b ELSE child,
                          parent_a, parent_b, i + 1)

\* smart_uniform: the scan, then the first locus taken from B on a coin
smart_uniform(parent_a, parent_b) ==
  LET child == SmartScan(parent_a, parent_a, parent_b, 0)
  IN  { child, SetAt(child, 0, At(parent_b, 0)) }

\* mutate_substitution: any position, any symbol (the old one included)
mutate_substitution(seq) ==
  { SetAt(seq, idx, x) : idx \in 0 .. (Len(seq) - 1), x \in RngSyms }

\* seq[i..=j].reverse()
ReverseRange(seq, i, j) ==
  [ k \in 1 .. Len(seq) |->
      IF i + 1 <= k /\ k <= j + 1 THEN seq[(i + 1) + (j + 1) - k] ELSE seq[k] ]

\* mutate_inversion
mutate_inversion(seq) ==
  IF Len(seq) < 3 THEN { seq }
  ELSE { ReverseRange(seq, ij[1], ij[2]) :
           ij \in { x \in (0 .. (Len(seq) - 2)) \X (1 .. (Len(seq) - 1)) : x[1] < x[2] } }

\* mutate_all
mutate_all(seq, p) ==
  LET s1 == UNION { IF g THEN mutate_substitution(seq) ELSE { seq } : g \in Gate(p) }
  IN  UNION { UNION { IF g THEN mutate_inversion(s) ELSE { s } : g \in Gate(p) } :
              s \in s1 }

\* the scan without the is_biologically_valid test of ga_neighbour.rs:200
RECURSIVE HillScan_NoValidity(_, _, _, _, _, _, _)
HillScan_NoValidity(seq, pos, orig, aa, bst, motif_idx, use_best) ==
  IF aa >= AlphabetSize THEN bst
  ELSE IF aa = orig
       THEN HillScan_NoValidity(seq, pos, orig, aa + 1, bst, motif_idx, use_best)
       ELSE LET score == combined_fitness(SetAt(seq, pos, aa), motif_idx, use_best)
            IN  HillScan_NoValidity(seq, pos, orig, aa + 1,
                                    IF score < bst[1] THEN << score, aa >> ELSE bst,
                                    motif_idx, use_best)

\* ga_neighbour.rs:193-209  the scan of the alternative symbols of one
\* position from aa on; bst is <<best_local, best_aa>>
RECURSIVE HillScan(_, _, _, _, _, _, _)
HillScan(seq, pos, orig, aa, bst, motif_idx, use_best) ==
  IF aa >= AlphabetSize THEN bst
  ELSE IF aa = orig THEN HillScan(seq, pos, orig, aa + 1, bst, motif_idx, use_best)
  ELSE LET tried == SetAt(seq, pos, aa)
       IN  IF ~ is_biologically_valid(tried)
           THEN HillScan(seq, pos, orig, aa + 1, bst, motif_idx, use_best)
           ELSE CHOOSE res \in
                  { HillScan(seq, pos, orig, aa + 1, nxt, motif_idx, use_best) :
                    nxt \in { IF score < bst[1] THEN << score, aa >> ELSE bst :
                              score \in { combined_fitness(tried, motif_idx, use_best) } } } :
                  TRUE

\* ga_neighbour.rs:187-214  the loop over the positions from pos on
RECURSIVE HillFrom(_, _, _, _, _)
HillFrom(seq, pos, best_score, motif_idx, use_best) ==
  IF pos >= Len(seq) THEN seq
  ELSE CHOOSE res \in
         { HillFrom(SetAt(seq, pos, bst[2]), pos + 1, bst[1], motif_idx, use_best) :
           bst \in { HillScan(seq, pos, At(seq, pos), 0, << best_score, At(seq, pos) >>,
                              motif_idx, use_best) } } : TRUE

\* hill_climb_optimize under the globals (CURRENT_MOTIF_IDX, USE_BEST_MOTIF)
hill_climb_optimize(seq, motif_idx, use_best) ==
  HillFrom(seq, 0, combined_fitness(seq, motif_idx, use_best), motif_idx, use_best)

\* hill_climb_optimize computed once for the sequences over RngSyms of each
\* motif NeighbourGA is run on (scoring against the current motif)
HillMemo ==
  [ m \in NeighMotifs |->
      [ r \in SeqsOfLen(RngSyms, current_motif_len(m)) |-> hill_climb_optimize(r, m, FALSE) ] ]

\* hill_climb_optimize(r) in the current state, read from HillMemo where it
\* is tabulated
HillOf(r) ==
  IF ~ use_best_motif /\ motif \in NeighMotifs /\ r \in DOMAIN HillMemo[motif]
  THEN HillMemo[motif][r]
  ELSE hill_climb_optimize(r, motif, use_best_motif)

\* ga_neighbour.rs:120-126  the candidates the regeneration loop can break
\* with
Regenerated ==
  { c \in UNION { repair(cand, motif) : cand \in random_individual(motif) } :
      is_biologically_valid(c) }

\* hill_climb_optimize tabulated over the sequences in S
HillTable(S) == [ r \in S |-> HillOf(r) ]

\* ga_neighbour.rs:99-103  mutate_all, then repair
MutateRepair(child, cfg) ==
  UNION { repair(m, motif) : m \in mutate_all(child, cfg.mutation_p) }

\* ga_neighbour.rs:105-136  what becomes of one mutated and repaired child r:
\* hill climbing when smart_xover is set and both gates open (hill[r] is
\* hill_climb_optimize(r)), then the validity filter.  seq is the child
\* pushed; hc is the hill-climbing call made on the way, NoCall if none.
AfterHill(r, cfg, hill) ==
  { [ seq |-> r, hc |-> NoCall ] }
  \cup (IF cfg.smart_xover
        THEN { [ seq |-> hill[r], hc |-> [ called |-> TRUE, given |-> r, left |-> hill[r] ] ] }
        ELSE { })

ValidityFilter(h, regenerated) ==
  IF is_biologically_valid(h.seq) THEN { h }
  ELSE { [ seq |-> c, hc |-> h.hc ] : c \in regenerated }

\* ga_neighbour.rs:86-97  the children of two parents
Recombine(parent_a, parent_b, cfg) ==
  UNION { IF g
          THEN IF cfg.smart_xover
               THEN smart_uniform(parent_a, parent_b) \X smart_uniform(parent_b, parent_a)
               ELSE uniform_crossover(parent_a, parent_b)
          ELSE { << parent_a, parent_b >> } :
          g \in Gate(cfg.crossover_p) }

\* ga_neighbour.rs:80-136  one round of the while loop: the two children it
\* can produce (a, b) and the hill-climbing call observed (at most one)
Rounds(pop, fit, cfg) ==
  LET picks    == tournament_pick(fit, Len(pop), NeighTournament)
      pairs    == UNION { Recombine(pop[p1], pop[p2], cfg) : p1 \in picks, p2 \in picks }
      children == { ch[1] : ch \in pairs } \cup { ch[2] : ch \in pairs }
      repaired == [ c \in children |-> MutateRepair(c, cfg) ]
      hill     == IF cfg.smart_xover
                  THEN HillTable(UNION { repaired[c] : c \in children })
                  ELSE << >>
      regen    == Regenerated
      pipe     == [ c \in children |->
                      UNION { UNION { ValidityFilter(h, regen) : h \in AfterHill(r, cfg, hill) } :
                              r \in repaired[c] } ]
  IN  UNION { UNION { { [ a |-> x.seq, b |-> y.seq, hc |-> obs ] :
                          obs \in { NoCall, x.hc, y.hc } } :
                      x \in pipe[ch[1]], y \in pipe[ch[2]] } :
              ch \in pairs }

\* ga_neighbour.rs:79-143  the while loop: child_a is pushed, child_b only
\* while there is room; hc is the one hill-climbing call kept under
\* observation (any of those made, or none)
RECURSIVE FillPop(_, _, _, _)
FillPop(next_pop, hc, rounds, pop_size) ==
  IF Len(next_pop) >= pop_size THEN { [ pop |-> next_pop, hc |-> hc ] }
  ELSE UNION { UNION { FillPop(IF Len(next_pop) + 1 < pop_size
                               THEN next_pop \o << r.a, r.b >>
                               ELSE Append(next_pop, r.a),
                               obs, rounds, pop_size) :
                       obs \in { hc, r.hc } } :
               r \in rounds }

\* an elitism step that writes the elite over a drawn slot every time
Elitism_AlwaysOverwrites(next_pop, fit) ==
  { [ next_pop EXCEPT ![rnd_idx] = next_pop[best_idx_of(fit)] ] :
      rnd_idx \in 1 .. Len(next_pop) }

\* ga_neighbour.rs:145-155  the elitism step on the new population: the
\* populations it can leave, the fitness vector being the one evaluate
\* computed before
Elitism(next_pop, fit) ==
  LET elite == next_pop[best_idx_of(fit)]
      elite_present == \E k \in 1 .. Len(next_pop) : next_pop[k] = elite
  IN  IF ~ elite_present
      THEN { [ next_pop EXCEPT ![rnd_idx] = elite ] : rnd_idx \in 1 .. Len(next_pop) }
      ELSE { next_pop }

\* NeighbourGA::best_individual
best_individual(pop, fit) == pop[best_idx_of(fit)]

\* the NeighCfg values the model is run on
NeighCfgs ==
  [ pop_size : 1 .. MaxPop, crossover_p : Probs, mutation_p : Probs,
    smart_xover : BOOLEAN, max_gens : 0 .. MaxNeighGens ]

\* NeighbourGA::new
InitNGA ==
  /\ InitShared("nga", NeighMotifs)
  /\ TabuIdle
  /\ GAIdle
  /\ Neigh2Idle
  /\ FilterIdle
  /\ OpIdle
  /\ ng_cfg \in NeighCfgs
  /\ ng_population \in SeqsOfLen(random_individual(motif), ng_cfg.pop_size)
  /\ ng_fitness = evaluate(ng_population)
  /\ ng_gen = 0
  /\ ng_hc = NoCall
  /\ gen0_best_f = MinOf({ ng_fitness[k] : k \in 1 .. Len(ng_fitness) })

\* NeighbourGA::step_generation, called by the loop of NeighbourGA::run; on
\* an empty population self.best() unwraps None (ga_neighbour.rs:68) and
\* panics after the population has been replaced and evaluated
NGAStep ==
  /\ engine \in NeighEngines /\ pc = "new" /\ ng_gen < ng_cfg.max_gens
  /\ \E o \in FillPop(<< >>, NoCall, Rounds(ng_population, ng_fitness, ng_cfg), ng_cfg.pop_size) :
       /\ ng_fitness' = evaluate(o.pop)
       /\ IF o.pop = << >>
          THEN /\ ng_population' = o.pop
               /\ pc' = "panicked"
               /\ ng_gen' = ng_gen
          ELSE /\ ng_population' \in Elitism(o.pop, ng_fitness')
               /\ pc' = pc
               /\ ng_gen' = ng_gen + 1
       /\ ng_hc' = o.hc
  /\ UNCHANGED << moreVars, engine, motif, use_best_motif, result, ng_cfg,
                  tsVars, gaVars, ng2Vars, opVars, gen0_best_f >>

\* ga_neighbour.rs:59  self.best_individual().to_vec(); on an empty
\* population self.best() unwraps None and panics
NGAReturn ==
  /\ engine \in NeighEngines /\ pc = "new" /\ ng_gen = ng_cfg.max_gens
  /\ IF ng_population = << >>
     THEN pc' = "panicked" /\ result' = result
     ELSE /\ result' = [ best |-> best_individual(ng_population, ng_fitness), trace |-> << >> ]
          /\ pc' = "done"
  /\ UNCHANGED << moreVars, engine, motif, use_best_motif, ngVars, tsVars, gaVars, ng2Vars, opVars, gen0_best_f >>

NextNGA == NGAStep \/ NGAReturn

SpecNGA == InitNGA /\ [][NextNGA]_vars

(***************************************************************************)
(* TabuSearch properties.                                                  *)
(***************************************************************************)
\* fitness, move and tabu status of candidate i of the last neighbourhood
CandF(i) == Fit(ts_neigh[i].cand)
CandTabu(i) == Contains(ts_pre.tabu, ts_neigh[i].mv)
CandAspires(i) == PlusBelow(CandF(i), AspirationMargin, Fit(ts_pre.curr))

\* candidate i took part in the minimum-fitness selection: a candidate was
\* chosen and it is no worse than i, first-seen on equal fitness
CandEligible(i) ==
  /\ ts_chosen # 0
  /\ \/ CandF(ts_chosen) < CandF(i)
     \/ CandF(ts_chosen) = CandF(i) /\ ts_chosen <= i

\* C1: after every iteration the tabu queue holds at most tabu_len moves,
\* for every tabu_len including 0.
C1_TabuWithinCapacity ==
  (engine = "tabu" /\ pc \in { "run", "done" }) => Len(tabu) <= ts_cfg.tabu_len

\* C2: when the chosen candidate's move was in the tabu queue at selection,
\* its fitness plus the aspiration margin is below the fitness of the
\* individual that was current.
C2_TabuChosenBeatsMargin ==
  (engine = "tabu" /\ ts_chosen # 0 /\ CandTabu(ts_chosen))
     => PlusBelow(CandF(ts_chosen), AspirationMargin, Fit(ts_pre.curr))

C2_Witness ==
  /\ engine = "tabu" /\ ts_chosen # 0 /\ CandTabu(ts_chosen)
  /\ curr = ts_neigh[ts_chosen].cand

\* C3 as claimed: a tabu candidate whose fitness plus the margin is below the
\* current fitness stays eligible, however it compares to best_f.
C3_AspirationAloneKeeps ==
  engine = "tabu" =>
    \A i \in 1 .. Len(ts_neigh) :
       (CandTabu(i) /\ CandAspires(i)) => CandEligible(i)

\* C3 amended: a tabu candidate stays eligible when its fitness plus the
\* margin is below the current fitness and its fitness is below best_f.
C3_AspirationAndBestKeeps ==
  engine = "tabu" =>
    \A i \in 1 .. Len(ts_neigh) :
       (CandTabu(i) /\ CandAspires(i) /\ CandF(i) < ts_pre.best_f) => CandEligible(i)

C3_Witness ==
  /\ engine = "tabu"
  /\ \E i \in 1 .. Len(ts_neigh) :
       /\ CandTabu(i) /\ CandAspires(i) /\ CandF(i) < ts_pre.best_f
       /\ CandEligible(i)

(***************************************************************************)
(* The three engines side by side.                                         *)
(***************************************************************************)
InitEngines == InitTabu \/ InitGA \/ InitNGA

NextEngines == NextTabu \/ NextGA \/ NextNGA

SpecEngines == InitEngines /\ [][NextEngines]_vars

(***************************************************************************)
(* Two NeighbourGA engines built with the same NeighCfg and run, one       *)
(* after the other (NGAStep and NGAReturn are the steps of either).        *)
(* NeighbourGA::new and NeighbourGA::run take no seed: every draw comes    *)
(* from rand::thread_rng() (ga_neighbour.rs:39), which the operating       *)
(* system seeds, so the two engines draw independently.                    *)
(***************************************************************************)
\* the NeighCfg values the pair is run on
PairCfgs ==
  { c \in NeighCfgs : c.pop_size = 1 /\ c.crossover_p = 50 /\ c.mutation_p = 50 }

\* NeighbourGA::new of the first engine
InitPair ==
  /\ InitShared("nga_pair", NeighMotifs)
  /\ TabuIdle
  /\ GAIdle
  /\ OpIdle
  /\ ng_cfg \in PairCfgs
  /\ ng_population \in SeqsOfLen(random_individual(motif), ng_cfg.pop_size)
  /\ ng_fitness = evaluate(ng_population)
  /\ ng_gen = 0
  /\ ng_hc = NoCall
  /\ gen0_best_f = MinOf({ ng_fitness[k] : k \in 1 .. Len(ng_fitness) })
  /\ Neigh2Idle
  /\ FilterIdle

\* NeighbourGA::new of the second engine, once the first has returned
PairNew2 ==
  /\ engine = "nga_pair" /\ pc = "done" /\ run_no = 1
  /\ first_best' = result.best
  /\ run_no' = 2
  /\ ng_population' \in SeqsOfLen(random_individual(motif), ng_cfg.pop_size)
  /\ ng_fitness' = evaluate(ng_population')
  /\ ng_gen' = 0
  /\ ng_hc' = NoCall
  /\ result' = NoResult
  /\ pc' = "new"
  /\ UNCHANGED << moreVars, engine, motif, use_best_motif, ng_cfg, tsVars, gaVars, opVars, gen0_best_f >>

NextPair == NGAStep \/ NGAReturn \/ PairNew2

SpecPair == InitPair /\ [][NextPair]_vars

(***************************************************************************)
(* The crossover operators applied on their own to two parents.            *)
(***************************************************************************)
\* parents of length 1 .. MaxLen
Parents == UNION { SeqsOfLen(RngSyms, n) : n \in 1 .. MaxLen }

\* GeneticAlgorithm::crossover on any two parents; uniform_crossover on two
\* parents of equal length, as NeighbourGA calls it
OpCalls ==
  [ op : { "crossover" }, kind : { "SinglePoint", "Uniform" }, prob : Probs,
    a : Parents, b : Parents ]
  \cup
  { c \in [ op : { "uniform_crossover" }, kind : { "Uniform" }, prob : { 100 },
            a : Parents, b : Parents ] : Len(c.a) = Len(c.b) }

InitOps ==
  /\ InitShared("ops", GAMotifs)
  /\ TabuIdle
  /\ GAIdle
  /\ NeighIdle
  /\ Neigh2Idle
  /\ FilterIdle
  /\ gen0_best_f = 0
  /\ op_in \in OpCalls
  /\ op_out = [ ok |-> TRUE, val |-> << >> ]
  /\ op_mv = NoMove

\* genetic.rs:92-118  GeneticAlgorithm::crossover(parent1, parent2, rng)
ApplyCrossover ==
  /\ engine = "ops" /\ pc = "new" /\ op_in.op = "crossover"
  /\ \E c \in crossover(op_in.a, op_in.b, op_in.kind, op_in.prob) :
       op_out' = IF c.ok THEN Ok(<< c.val >>) ELSE Panic
  /\ pc' = "done"
  /\ UNCHANGED << moreVars, engine, motif, use_best_motif, result, op_in,
                  tsVars, gaVars, ngVars, ng2Vars, gen0_best_f >>

\* ga_neighbour.rs:217-227  uniform_crossover(a, b, rng)
ApplyUniformCrossover ==
  /\ engine = "ops" /\ pc = "new" /\ op_in.op = "uniform_crossover"
  /\ \E ch \in uniform_crossover(op_in.a, op_in.b) : op_out' = Ok(ch)
  /\ pc' = "done"
  /\ UNCHANGED << moreVars, engine, motif, use_best_motif, result, op_in,
                  tsVars, gaVars, ngVars, ng2Vars, gen0_best_f >>

NextOps == ApplyCrossover \/ ApplyUniformCrossover

SpecOps == InitOps /\ [][NextOps]_vars

(***************************************************************************)
(* Properties of the engines and operators.                                *)
(***************************************************************************)
\* C4 as claimed: two runs with identical configuration (and seed) return
\* the identical best individual.  NeighbourGA is the engine it fails for.
C4_SameConfigSameBest ==
  (engine = "nga_pair" /\ pc = "done" /\ run_no = 2) => result.best = first_best

\* C5: the best individual an engine returns has the length of the current
\* motif.
C5_BestHasTargetLength ==
  (engine \in { "tabu", "ga", "nga" } /\ pc = "done")
     => Len(result.best) = current_motif_len(motif)

C5_Witness ==
  /\ engine = "ga" /\ pc = "done"
  /\ ga_cfg.crossover = "SinglePoint" /\ ga_cfg.crossover_prob = 100
  /\ ga_cfg.mutation_prob = 100 /\ ga_i >= 2
  /\ Len(result.best) = current_motif_len(motif)

\* child is parent a up to a cut in [1, L) followed by parent b from the cut
IsSinglePointOf(child, a, b) ==
  \E cut \in 1 .. (Len(a) - 1) :
     child = SubSeq(a, 1, cut) \o SubSeq(b, cut + 1, Len(b))

SinglePointApplied ==
  /\ engine = "ops" /\ pc = "done" /\ op_in.op = "crossover"
  /\ op_in.kind = "SinglePoint" /\ op_in.prob = 100
  /\ Len(op_in.a) = Len(op_in.b)

\* C6 as claimed: for every L >= 1 single-point crossover of two parents of
\* length L completes and returns a child of length L cut in [1, L).
C6_SinglePointEveryLength ==
  SinglePointApplied =>
     /\ op_out.ok
     /\ Len(op_out.val[1]) = Len(op_in.a)
     /\ IsSinglePointOf(op_out.val[1], op_in.a, op_in.b)

\* C6 amended: the same for every L >= 2.
C6_SinglePointFromLength2 ==
  (SinglePointApplied /\ Len(op_in.a) >= 2) =>
     /\ op_out.ok
     /\ Len(op_out.val[1]) = Len(op_in.a)
     /\ IsSinglePointOf(op_out.val[1], op_in.a, op_in.b)

C6_Witness ==
  /\ SinglePointApplied /\ Len(op_in.a) >= 2 /\ op_in.a # op_in.b
  /\ op_out.ok /\ op_out.val[1] # op_in.a /\ op_out.val[1] # op_in.b

\* C7: every child of a uniform crossover of two parents of equal length has
\* their length and, at every position, the symbol of one of them.
C7_UniformChildFromParents ==
  (/\ engine = "ops" /\ pc = "done" /\ op_in.kind = "Uniform"
   /\ Len(op_in.a) = Len(op_in.b))
  => /\ op_out.ok
     /\ Len(op_out.val) = IF op_in.op = "crossover" THEN 1 ELSE 2
     /\ \A c \in 1 .. Len(op_out.val) :
          /\ Len(op_out.val[c]) = Len(op_in.a)
          /\ \A i \in 1 .. Len(op_in.a) :
               op_out.val[c][i] \in { op_in.a[i], op_in.b[i] }

C7_Witness ==
  /\ engine = "ops" /\ pc = "done" /\ op_in.op = "crossover" /\ op_in.kind = "Uniform"
  /\ Len(op_in.a) = Len(op_in.b) /\ Len(op_in.a) >= 2
  /\ op_out.ok /\ op_out.val[1] # op_in.a /\ op_out.val[1] # op_in.b

\* C8 as claimed: every sequence hill_climb_optimize is called on in
\* step_generation is left passing is_biologically_valid.
C8_HillLeavesValid ==
  (engine = "nga" /\ ng_hc.called) => is_biologically_valid(ng_hc.left)

\* C8 amended: the sequence is left passing is_biologically_valid when it
\* passed on entry or when hill_climb_optimize changed it.
C8_HillKeepsOrMakesValid ==
  (/\ engine = "nga" /\ ng_hc.called
   /\ (is_biologically_valid(ng_hc.given) \/ ng_hc.left # ng_hc.given))
  => is_biologically_valid(ng_hc.left)

C8_Witness ==
  /\ engine = "nga" /\ ng_hc.called
  /\ is_biologically_valid(ng_hc.given) /\ ng_hc.left # ng_hc.given
  /\ is_biologically_valid(ng_hc.left)

\* C9 as claimed: after a run of at least one generation the returned best
\* individual is at least as fit as the best of generation 0.
C9_FinalNoWorseThanGen0 ==
  /\ (engine = "ga" /\ pc = "done" /\ ga_cfg.generations >= 1)
        => Fit(result.best) <= gen0_best_f
  /\ (engine = "nga" /\ pc = "done" /\ ng_cfg.max_gens >= 1)
        => Fit(result.best) <= gen0_best_f

\* C10 as claimed: after every generation the population holds the best
\* individual found so far, that is, no step_generation raises the
\* population's minimum fitness.
C10_ElitismKeepsBest ==
  [][ (engine = "nga" /\ ng_gen' = ng_gen + 1)
         => MinFit(ng_population') <= MinFit(ng_population) ]_vars

(***************************************************************************)
(* GeneticAlgorithm and NeighbourGA built with any configuration, in range *)
(* or not.  GeneticAlgorithm is a struct with public fields and            *)
(* NeighbourGA::new (ga_neighbour.rs:38-53) stores the NeighCfg it is      *)
(* given: neither looks at the values.                                     *)
(***************************************************************************)
\* population sizes and probabilities (percent) tried, 0 and the values
\* outside [0, 1] among them
AnyPops == { 0, 1 }
AnyProbs == { -50, 50, 150 }

AnyGACfgs ==
  [ population_size : AnyPops, generations : 0 .. 1,
    crossover_prob : AnyProbs, crossover : { "SinglePoint", "Uniform" },
    mutation_prob : AnyProbs, tournament_size : { 1 } ]

AnyNeighCfgs ==
  [ pop_size : AnyPops, crossover_p : AnyProbs, mutation_p : AnyProbs,
    smart_xover : BOOLEAN, max_gens : 0 .. 1 ]

\* a GeneticAlgorithm value as the caller builds it
InitGAAny ==
  /\ InitShared("ga", GAMotifs)
  /\ TabuIdle
  /\ NeighIdle
  /\ Neigh2Idle
  /\ FilterIdle
  /\ OpIdle
  /\ ga_cfg \in AnyGACfgs
  /\ population = << >> /\ ga_i = 0 /\ progress = << >>
  /\ gen0_best_f = 0

\* NeighbourGA::new
InitNGAAny ==
  /\ InitShared("nga", NeighMotifs)
  /\ TabuIdle
  /\ GAIdle
  /\ Neigh2Idle
  /\ FilterIdle
  /\ OpIdle
  /\ ng_cfg \in AnyNeighCfgs
  /\ ng_population \in SeqsOfLen(random_individual(motif), ng_cfg.pop_size)
  /\ ng_fitness = evaluate(ng_population)
  /\ ng_gen = 0
  /\ ng_hc = NoCall
  /\ gen0_best_f = IF ng_fitness = << >> THEN 0
                   ELSE MinOf({ ng_fitness[k] : k \in 1 .. Len(ng_fitness) })

InitAnyCfg == InitGAAny \/ InitNGAAny

NextAnyCfg == NextGA \/ NextNGA

SpecAnyCfg == InitAnyCfg /\ [][NextAnyCfg]_vars

\* a probability (percent) outside [0, 1]
OutOfRange(p) == p < 0 \/ p > 100

\* C11 as claimed: an engine whose configuration has population size 0 or a
\* crossover/mutation probability outside [0, 1] is never run: it does not
\* start, complete or panic in a run.
C11_OutOfRangeNeverRuns ==
  /\ (/\ engine = "ga"
      /\ \/ ga_cfg.population_size = 0
         \/ OutOfRange(ga_cfg.crossover_prob) \/ OutOfRange(ga_cfg.mutation_prob))
     => pc = "new"
  /\ (/\ engine = "nga"
      /\ \/ ng_cfg.pop_size = 0
         \/ OutOfRange(ng_cfg.crossover_p) \/ OutOfRange(ng_cfg.mutation_p))
     => (pc = "new" /\ ng_gen = 0)

(***************************************************************************)
(* NeighbourGA with the scoring globals of peptide.rs set by the caller    *)
(* while the engine exists.  CURRENT_MOTIF_IDX and USE_BEST_MOTIF are      *)
(* `static mut`; combined_fitness, energy, current_motif_len and repair    *)
(* read them on every call.                                                *)
(***************************************************************************)
\* the indices handed to set_motif: two catalog entries of different length
\* (RGD, KDEL) and the first index past the catalog
SetMotifArgs == { 1, 2, NumMotifs }

\* the NeighCfg values the engine is built with here
MotifCfgs == { c \in NeighCfgs : c.pop_size = 1 /\ c.mutation_p = 50 }

\* NeighbourGA::new
InitMotif ==
  /\ InitNGA
  /\ ng_cfg \in MotifCfgs

\* peptide.rs:105-111  set_motif(index)
SetMotif ==
  /\ engine \in NeighEngines /\ pc = "new"
  /\ \E index \in SetMotifArgs :
       motif' = IF index < NumMotifs THEN index ELSE motif
  /\ UNCHANGED << engine, pc, use_best_motif, result, tsVars, gaVars, ngVars, ng2Vars,
                  opVars, gen0_best_f, moreVars >>

\* peptide.rs:150-154  set_use_best_motif(use_best)
SetUseBestMotif ==
  /\ engine \in NeighEngines /\ pc = "new"
  /\ \E use_best \in BOOLEAN : use_best_motif' = use_best
  /\ UNCHANGED << engine, pc, motif, result, tsVars, gaVars, ngVars, ng2Vars,
                  opVars, gen0_best_f, moreVars >>

NextMotif == NextNGA \/ SetMotif \/ SetUseBestMotif

SpecMotif == InitMotif /\ [][NextMotif]_vars

\* C12 as claimed: whatever set_motif / set_use_best_motif calls are made
\* after construction, the fitness the engine holds for every individual is
\* its fitness under the scoring configuration of construction time, and
\* every individual has the length of the motif of construction time.
C12_ScoringFixedAtBuild ==
  (engine = "nga" /\ pc \in { "new", "done" })
  => /\ ng_fitness =
          [ k \in 1 .. Len(ng_population) |->
              combined_fitness(ng_population[k], built_with.motif, built_with.use_best) ]
     /\ \A k \in 1 .. Len(ng_population) :
          Len(ng_population[k]) = current_motif_len(built_with.motif)

(***************************************************************************)
(* The biological-plausibility filter of step_generation                   *)
(* (ga_neighbour.rs:118-136) taken alone, one pass of its loop per step.   *)
(***************************************************************************)
\* a child as it reaches the filter: mutated, repaired, possibly hill-climbed
InitFilter ==
  /\ InitShared("filter", NeighMotifs)
  /\ TabuIdle
  /\ GAIdle
  /\ NeighIdle
  /\ Neigh2Idle
  /\ OpIdle
  /\ gen0_best_f = 0
  /\ filter \in [ child : random_individual(motif), cand : { << >> } ]

\* ga_neighbour.rs:119  if !is_biologically_valid(&child) { child = loop .. }
FilterChild ==
  /\ engine = "filter" /\ pc = "new"
  /\ pc' = IF is_biologically_valid(filter.child) THEN "kept" ELSE "regen"
  /\ UNCHANGED << engine, motif, use_best_motif, result, tsVars, gaVars, ngVars, ng2Vars,
                  opVars, gen0_best_f, built_with, op_mv, filter >>

\* ga_neighbour.rs:120-126  one pass of the loop: draw a candidate, repair
\* it, break with it if it is valid, go round again if it is not
RegenTry ==
  /\ engine = "filter" /\ pc = "regen"
  /\ \E drawn \in random_individual(motif) :
       \E cand \in repair(drawn, motif) :
          IF is_biologically_valid(cand)
          THEN /\ filter' = [ child |-> cand, cand |-> cand ]
               /\ pc' = "kept"
          ELSE /\ filter' = [ filter EXCEPT !.cand = cand ]
               /\ pc' = pc
  /\ UNCHANGED << engine, motif, use_best_motif, result, tsVars, gaVars, ngVars, ng2Vars,
                  opVars, gen0_best_f, built_with, op_mv >>

NextFilter == FilterChild \/ RegenTry

\* the thread running step_generation keeps running
SpecFilter ==
  InitFilter /\ [][NextFilter]_vars /\ WF_vars(FilterChild) /\ WF_vars(RegenTry)

\* C13 as claimed: the regeneration loop makes a bounded number of passes, so
\* the filter always comes to an end with a child to push.
C13_RegenerationEnds == (engine = "filter") ~> (pc = "kept")

(***************************************************************************)
(* The traces of TabuSearch::run and GeneticAlgorithm::run.                *)
(***************************************************************************)
\* entry k of a trace carries the loop index k - 1
IndexedFromZero(tr) == \A k \in 1 .. Len(tr) : tr[k][1] = k - 1

\* C14: each loop pass of TabuSearch::run and of GeneticAlgorithm::run adds
\* exactly one entry, numbered by the pass, to the trace, and the trace a run
\* returns has as many entries as the configured iterations (generations):
\* the loop is never left before the budget is spent.
C14_OneEntryPerPass ==
  /\ (engine = "tabu" /\ pc \in { "run", "done" })
        => (Len(trace) = it /\ IndexedFromZero(trace))
  /\ (engine = "tabu" /\ pc = "done")
        => (result.trace = trace /\ Len(result.trace) = ts_cfg.iterations)
  /\ (engine = "ga" /\ pc # "new")
        => (Len(progress) = ga_i /\ IndexedFromZero(progress))
  /\ (engine = "ga" /\ pc = "done")
        => (result.trace = progress /\ Len(result.trace) = ga_cfg.generations)
  /\ (engine = "ga" /\ pc = "run" /\ ga_i = 0) => progress = << >>

C14_Witness ==
  /\ engine = "tabu" /\ pc = "done"
  /\ ts_cfg.iterations = MaxIter
  /\ Len(result.trace) = MaxIter /\ result.trace[MaxIter][1] = MaxIter - 1
\* the best scores of a trace never go up
NonIncreasing(tr) == \A k \in 1 .. Len(tr) - 1 : tr[k + 1][2] <= tr[k][2]

\* C15: in TabuSearch::run the best scores of the trace never increase; after
\* every iteration the recorded best score is the fitness of the stored best
\* individual; and an iteration replaces the best only by the current
\* individual and only when that one's fitness is strictly below best_f.
C15_BestOnlyImproves ==
  /\ [] ((engine = "tabu" /\ pc \in { "run", "done" }) =>
           /\ best_f = Fit(best)
           /\ NonIncreasing(trace)
           /\ trace # << >> => trace[Len(trace)][2] = best_f)
  /\ [][ (engine = "tabu" /\ pc = "run") =>
           /\ best' # best => (best' = curr' /\ Fit(curr') < best_f)
           /\ best' = best => best_f' = best_f ]_vars

C15_Witness ==
  /\ engine = "tabu" /\ pc = "run" /\ Len(trace) >= 2
  /\ trace[2][2] < trace[1][2]
  /\ best = curr /\ best_f = trace[2][2]
(***************************************************************************)
(* is_biologically_valid called on any sequence.                           *)
(***************************************************************************)
\* the longest sequence the predicate is called on
MaxValidLen == 4

\* A, C, D, G, K, P of AA_LETTERS
ValidSyms == { 0, 1, 2, 5, 8, 12 }

ValidCalls ==
  [ op : { "is_biologically_valid" },
    a : UNION { SeqsOfLen(ValidSyms, n) : n \in 0 .. MaxValidLen } ]

InitValid ==
  /\ InitShared("valid", GAMotifs)
  /\ TabuIdle
  /\ GAIdle
  /\ NeighIdle
  /\ Neigh2Idle
  /\ FilterIdle
  /\ gen0_best_f = 0
  /\ op_in \in ValidCalls
  /\ op_out = [ ok |-> TRUE, val |-> << >> ]
  /\ op_mv = NoMove

\* peptide.rs:48-82  is_biologically_valid(seq)
ApplyValid ==
  /\ engine = "valid" /\ pc = "new"
  /\ op_out' = Ok(is_biologically_valid(op_in.a))
  /\ pc' = "done"
  /\ UNCHANGED << moreVars, engine, motif, use_best_motif, result, op_in,
                  tsVars, gaVars, ngVars, ng2Vars, gen0_best_f >>

NextValid == ApplyValid

SpecValid == InitValid /\ [][NextValid]_vars

\* the four checks as stated: the mean of the table's hydropathy values, in
\* tenths, within [HydroLow, HydroHigh]; no CC or PP; no MaxRun equal
\* symbols in a row
MeanHydroInRange(s) ==
  LET sum == SumSeq([ k \in 1 .. Len(s) |-> HYDROPATHY[s[k] + 1] ])
  IN  HydroLow * Len(s) <= sum /\ sum <= HydroHigh * Len(s)

NoForbiddenPair(s) ==
  \A k \in 1 .. (Len(s) - 1) :
     ~ (s[k] = s[k + 1] /\ s[k] \in { SymC, SymP })

HasLongRun(s) ==
  \E k \in 1 .. (Len(s) - MaxRun + 1) :
     \A j \in 1 .. (MaxRun - 1) : s[k + j] = s[k]

\* C16: is_biologically_valid returns true exactly when the sequence is
\* non-empty, its mean hydropathy lies in [-1.5, 3.0] bounds included, it
\* has no adjacent CC or PP, and it has no run of 4 or more equal symbols.
C16_ValidIffFourChecks ==
  (engine = "valid" /\ pc = "done") =>
     (op_out.val <=> ( /\ op_in.a # << >>
                       /\ MeanHydroInRange(op_in.a)
                       /\ NoForbiddenPair(op_in.a)
                       /\ ~ HasLongRun(op_in.a) ))

(***************************************************************************)
(* PeptideProblem::apply_move called on any individual with any Move.      *)
(***************************************************************************)
\* positions up to one past the longest individual
MovePositions == 0 .. MaxLen

AnyMoves ==
  { Subst(pos, old, new) : pos \in MovePositions, old \in RngSyms, new \in RngSyms }
  \cup { Swap(p1, p2) : p1 \in MovePositions, p2 \in MovePositions }
  \cup { Insert(pos, aa) : pos \in MovePositions, aa \in RngSyms }
  \cup { Delete(pos, aa) : pos \in MovePositions, aa \in RngSyms }

MoveCalls ==
  [ op : { "apply_move" },
    a : UNION { SeqsOfLen(RngSyms, n) : n \in 0 .. MaxLen } ]

InitMoves ==
  /\ InitShared("moves", GAMotifs)
  /\ TabuIdle
  /\ GAIdle
  /\ NeighIdle
  /\ Neigh2Idle
  /\ FilterIdle
  /\ gen0_best_f = 0
  /\ op_in \in MoveCalls
  /\ op_mv \in AnyMoves
  /\ op_out = [ ok |-> TRUE, val |-> << >> ]

\* peptide.rs:252-260  apply_move(ind, mv)
ApplyMove ==
  /\ engine = "moves" /\ pc = "new"
  /\ op_out' = apply_move_call(op_in.a, op_mv)
  /\ pc' = "done"
  /\ UNCHANGED << moreVars, engine, motif, use_best_motif, result, op_in,
                  tsVars, gaVars, ngVars, ng2Vars, gen0_best_f >>

NextMoves == ApplyMove

SpecMoves == InitMoves /\ [][NextMoves]_vars

\* the move is one apply_move has to refuse
MoveRefused(ind, mv) ==
  \/ mv.kind \in { "Insert", "Delete" }
  \/ mv.kind = "Subst" /\ mv.pos >= Len(ind)
  \/ mv.kind = "Swap" /\ (mv.p1 >= Len(ind) \/ mv.p2 >= Len(ind))

\* symbol k of the individual once the recorded move is applied
MovedSymbol(ind, mv, k) ==
  IF mv.kind = "Subst" THEN (IF k = mv.pos THEN mv.new ELSE At(ind, k))
  ELSE IF k = mv.p1 THEN At(ind, mv.p2)
  ELSE IF k = mv.p2 THEN At(ind, mv.p1)
  ELSE At(ind, k)

\* C17: apply_move panics and leaves the individual as it was when the move
\* is Insert or Delete or a Subst/Swap position is not below the
\* individual's length; otherwise it returns with exactly the recorded
\* substitution or swap applied.
C17_ApplyMoveContract ==
  (engine = "moves" /\ pc = "done") =>
     IF MoveRefused(op_in.a, op_mv)
     THEN ~ op_out.ok /\ op_out.val = op_in.a
     ELSE /\ op_out.ok
          /\ Len(op_out.val) = Len(op_in.a)
          /\ \A k \in 0 .. (Len(op_in.a) - 1) :
                At(op_out.val, k) = MovedSymbol(op_in.a, op_mv, k)

C17_Witness ==
  /\ engine = "moves" /\ pc = "done"
  /\ op_mv.kind = "Subst" /\ op_in.a # << >> /\ op_mv.pos = Len(op_in.a)
  /\ ~ op_out.ok /\ op_out.val = op_in.a
\* the iteration just done did not end with the reheat of tabu.rs:68-70
LastStepKeptQueue == it >= 1 /\ ~ ((it - 1) % ReheatPeriod = 0 /\ it - 1 # 0)

\* the queue as it was, less its oldest entry when it was at capacity
AfterEviction(q, tabu_len) ==
  IF Len(q) = tabu_len /\ Len(q) >= 1 THEN [ k \in 1 .. (Len(q) - 1) |-> q[k + 1] ] ELSE q

\* C18: an iteration of TabuSearch::run that selects a candidate makes it the
\* current individual and its move the newest tabu entry, behind the former
\* entries in their former order, the oldest of them dropped when the queue
\* was at capacity; an iteration that selects none leaves the current
\* individual and the queue as they were.
C18_SelectedBecomesCurrentAndNewest ==
  (engine = "tabu" /\ pc \in { "run", "done" } /\ LastStepKeptQueue) =>
     IF ts_chosen # 0
     THEN /\ curr = ts_neigh[ts_chosen].cand
          /\ tabu = Append(AfterEviction(ts_pre.tabu, ts_cfg.tabu_len),
                           ts_neigh[ts_chosen].mv)
     ELSE curr = ts_pre.curr /\ tabu = ts_pre.tabu

C18_Witness ==
  /\ engine = "tabu" /\ pc = "run" /\ ts_chosen # 0
  /\ ts_cfg.tabu_len = 2 /\ Len(ts_pre.tabu) = 2
  /\ ts_pre.tabu[1] # ts_pre.tabu[2]
  /\ tabu = << ts_pre.tabu[2], ts_neigh[ts_chosen].mv >>
  /\ curr = ts_neigh[ts_chosen].cand
\* C19: after every completed NeighbourGA::step_generation the population
\* holds exactly pop_size individuals, each of them passes
\* is_biologically_valid, and the fitness vector holds, slot by slot, the
\* fitness of the individual in the same slot of the population.
C19_StepLeavesValidEvaluatedPop ==
  (engine = "nga" /\ pc # "panicked" /\ ng_gen >= 1) =>
     /\ Len(ng_population) = ng_cfg.pop_size
     /\ \A k \in 1 .. Len(ng_population) : is_biologically_valid(ng_population[k])
     /\ Len(ng_fitness) = Len(ng_population)
     /\ \A k \in 1 .. Len(ng_population) : ng_fitness[k] = Fit(ng_population[k])

C19_Witness ==
  /\ engine = "nga" /\ pc = "new" /\ ng_gen = 1
  /\ ng_cfg.pop_size = MaxPop /\ Len(ng_population) = MaxPop
  /\ ng_fitness[1] # ng_fitness[MaxPop]
  /\ ng_fitness[MaxPop] = Fit(ng_population[MaxPop])
====
